---- MODULE Spec2Model ----
(***************************************************************************)
(* A model of the Reddit analytics dashboard's helper modules:             *)
(*   streamlit_utils/config_manager.py  (the settings store)               *)
(*   streamlit_utils/data_loader.py     (source resolution and summary)    *)
(*                                                                         *)
(* Text is a sequence of one-character strings.  A DataFrame is a record   *)
(* [none, cols, rows]; Python's None is the record with none = TRUE.  A    *)
(* call that can raise returns [exc, val]: exc = TRUE is a raised          *)
(* exception, and a try/except is the operator that turns it into the      *)
(* except branch's value.                                                  *)
(***************************************************************************)
EXTENDS Integers, Sequences, FiniteSets, TLC

(***************************************************************************)
(* Bounds of the model.                                                    *)
(***************************************************************************)
\* rows of one local CSV file, when load_local_data is explored on its own
MaxRows == 2
\* rows of one local CSV file, when both sources are explored together
MaxLoadRows == 1
\* rows of the warehouse table
MaxRemoteRows == 2

\* a directory holds no file, one file or two files (T1 and T2)
FileCounts == {0, 1, 2}

(***************************************************************************)
(* DataFrames.                                                             *)
(***************************************************************************)
Ids == {"p1", "p2"}
\* created_utc as text in a CSV file: two dates and one text that is no date
RawTs == {"t1", "t2", "junk"}
\* created_utc as a timestamp
Timestamps == {"d1", "d2"}
NaN == "NaN"
NaT == "NaT"
LocalCols == {"id", "created_utc"}

None == [none |-> TRUE, cols |-> {}, rows |-> <<>>]
DataFrame(c, r) == [none |-> FALSE, cols |-> c, rows |-> r]

\* DataFrame.empty: some axis has length zero
IsEmpty(d) == Len(d.rows) = 0 \/ d.cols = {}

\* the sequences over S of length at most n
SeqsUpTo(S, n) == UNION {[1..k -> S] : k \in 0..n}

(***************************************************************************)
(* Local CSV files.  A file is [ok, rows]: ok = FALSE is a file that       *)
(* pd.read_csv cannot parse.  All files of a directory share the columns   *)
(* cols; a column the files lack reads as NaN after the concatenation.     *)
(***************************************************************************)
RawRows(cols) ==
    [id : IF "id" \in cols THEN Ids ELSE {NaN},
     created_utc : IF "created_utc" \in cols THEN RawTs ELSE {NaN}]

CsvFilesOver(rows, n) ==
    [ok : {TRUE}, rows : SeqsUpTo(rows, n)] \cup {[rows |-> <<>>, ok |-> FALSE]}

CsvFiles(cols, n) == CsvFilesOver(RawRows(cols), n)

\* the directories: the files in the order glob yields them
Dirs(cols, n) == UNION {[1..k -> CsvFiles(cols, n)] : k \in FileCounts}

\* pd.read_csv(csv_file) of file i: its rows, each carrying src = <<i, j>>,
\* its place in the scan, which stands for the row's other column values
read_csv(files, i) ==
    [j \in 1..Len(files[i].rows) |->
        [id |-> files[i].rows[j].id,
         created_utc |-> files[i].rows[j].created_utc,
         src |-> <<i, j>>]]

\* the loop over csv_files: the files that parse, in scan order
RECURSIVE ParsedFrom(_, _)
ParsedFrom(files, i) ==
    IF i > Len(files) THEN <<>>
    ELSE IF files[i].ok THEN <<i>> \o ParsedFrom(files, i + 1)
    ELSE ParsedFrom(files, i + 1)

dfs(files) == ParsedFrom(files, 1)

\* pd.concat(dfs, ignore_index=True)
RECURSIVE ConcatFrom(_, _, _)
ConcatFrom(files, idx, k) ==
    IF k > Len(idx) THEN <<>>
    ELSE read_csv(files, idx[k]) \o ConcatFrom(files, idx, k + 1)

pd_concat(files, idx) == ConcatFrom(files, idx, 1)

\* drop_duplicates(subset=['id'], keep='last'): row i stays when no later
\* row has its id (NaN ids count as equal)
RECURSIVE KeepLastFrom(_, _)
KeepLastFrom(rows, i) ==
    IF i > Len(rows) THEN <<>>
    ELSE IF \E j \in (i + 1)..Len(rows) : rows[j].id = rows[i].id
         THEN KeepLastFrom(rows, i + 1)
         ELSE <<rows[i]>> \o KeepLastFrom(rows, i + 1)

\* drop_duplicates with keep='first'
RECURSIVE KeepFirstFrom(_, _)
KeepFirstFrom(rows, i) ==
    IF i > Len(rows) THEN <<>>
    ELSE IF \E j \in 1..(i - 1) : rows[j].id = rows[i].id
         THEN KeepFirstFrom(rows, i + 1)
         ELSE <<rows[i]>> \o KeepFirstFrom(rows, i + 1)

drop_duplicates_first(rows) == KeepFirstFrom(rows, 1)

drop_duplicates(rows) == KeepLastFrom(rows, 1)

\* pd.to_datetime on one value: a date text becomes its timestamp, a
\* timestamp stays as it is, a missing value becomes NaT, and any other text
\* raises
Parseable(raw) == raw \in {"t1", "t2", NaN, NaT} \/ raw \in Timestamps
to_datetime_value(raw) ==
    CASE raw = "t1" -> "d1"
      [] raw = "t2" -> "d2"
      [] raw \in Timestamps -> raw
      [] OTHER -> NaT

to_datetime_raises(rows) == \E i \in 1..Len(rows) : ~Parseable(rows[i].created_utc)

to_datetime(rows) ==
    [i \in 1..Len(rows) |->
        [rows[i] EXCEPT !.created_utc = to_datetime_value(rows[i].created_utc)]]

\* sort_values('created_utc', ascending=False): later timestamps first, NaT
\* last.  pandas leaves the order of rows of equal timestamp to the sort;
\* here they keep their order, and no claim below reads that order
TsRank(t) == CASE t = "d2" -> 2 [] t = "d1" -> 1 [] OTHER -> 0

RECURSIVE InsertDesc(_, _)
InsertDesc(sorted, r) ==
    IF sorted = <<>> THEN <<r>>
    ELSE IF TsRank(Head(sorted).created_utc) >= TsRank(r.created_utc)
         THEN <<Head(sorted)>> \o InsertDesc(Tail(sorted), r)
         ELSE <<r>> \o sorted

RECURSIVE SortFrom(_, _, _)
SortFrom(rows, i, acc) ==
    IF i > Len(rows) THEN acc ELSE SortFrom(rows, i + 1, InsertDesc(acc, rows[i]))

sort_values(rows) == SortFrom(rows, 1, <<>>)

\* lines 89-94 of load_local_data: the combined table after deduplication
combined_df(files, cols) ==
    LET cat == pd_concat(files, dfs(files))
    IN  IF "id" \in cols THEN drop_duplicates(cat) ELSE cat

\* the body of load_local_data's try block; locals records combined_df when
\* the body reaches it
load_local_data_try(dir, alt, cols, globRaises) ==
    LET csv_files == IF dir # <<>> THEN dir ELSE alt
        comb == combined_df(csv_files, cols)
    IN  IF globRaises THEN [exc |-> TRUE, val |-> None, combined |-> None]
        ELSE IF csv_files = <<>> THEN [exc |-> FALSE, val |-> None, combined |-> None]
        ELSE IF dfs(csv_files) = <<>> THEN [exc |-> FALSE, val |-> None, combined |-> None]
        ELSE IF "created_utc" \notin cols
             THEN [exc |-> FALSE, val |-> DataFrame(cols, comb),
                   combined |-> DataFrame(cols, comb)]
        ELSE IF to_datetime_raises(comb)
             THEN [exc |-> TRUE, val |-> None, combined |-> DataFrame(cols, comb)]
        ELSE [exc |-> FALSE, val |-> DataFrame(cols, sort_values(to_datetime(comb))),
              combined |-> DataFrame(cols, comb)]

\* load_local_data: the except branch returns None
load_local_data(dir, alt, cols, globRaises) ==
    LET r == load_local_data_try(dir, alt, cols, globRaises)
    IN  IF r.exc THEN [exc |-> FALSE, val |-> None, combined |-> r.combined] ELSE r

(***************************************************************************)
(* The settings file (configparser.ConfigParser, basic interpolation).     *)
(* The file is [state, sections]: state is "missing" (no file at the       *)
(* path), "malformed" (text configparser cannot parse) or "ok", and        *)
(* sections maps each section present to its keys, each key to the text    *)
(* after "key = " as it stands in the file.                                *)
(***************************************************************************)
\* the longest subreddit text passed to an update
MaxStrLen == 2
\* the largest limit passed to an update
MaxLimit == 1

\* the largest limit the configuration form accepts
FormMaxLimit == 1000

Chars == {"a", " ", "%"}
Digits == <<"0", "1", "2", "3", "4", "5", "6", "7", "8", "9">>

NoSections == [s \in {} |-> <<>>]
NoValue == [k \in {} |-> <<>>]
Raised == [exc |-> TRUE, val |-> NoValue]
Returned(v) == [exc |-> FALSE, val |-> v]

\* Optional[int]: None is <<>>, the integer n is <<n>>
NoLimit == <<>>
Limit(n) == <<n>>

TextNone == <<"N", "o", "n", "e">>
TextDataengineering == <<"d", "a", "t", "a", "e", "n", "g", "i", "n", "e", "e", "r", "i", "n", "g">>
TextDay == <<"d", "a", "y">>
TextAll == <<"a", "l", "l">>

\* str.strip()
RECURSIVE LStrip(_)
LStrip(t) == IF t # <<>> /\ Head(t) = " " THEN LStrip(Tail(t)) ELSE t

RECURSIVE RStrip(_)
RStrip(t) ==
    IF t # <<>> /\ t[Len(t)] = " " THEN RStrip(SubSeq(t, 1, Len(t) - 1)) ELSE t

Strip(t) == RStrip(LStrip(t))

\* BasicInterpolation.before_set: with every "%%" removed no "%" may remain
RECURSIVE BeforeSetOk(_)
BeforeSetOk(t) ==
    IF t = <<>> THEN TRUE
    ELSE IF Head(t) # "%" THEN BeforeSetOk(Tail(t))
    ELSE Len(t) >= 2 /\ t[2] = "%" /\ BeforeSetOk(Tail(Tail(t)))

\* BasicInterpolation.before_get: "%%" reads as "%"; a "%" followed by
\* anything else raises InterpolationSyntaxError
RECURSIVE InterpolateOk(_)
InterpolateOk(t) ==
    IF t = <<>> THEN TRUE
    ELSE IF Head(t) # "%" THEN InterpolateOk(Tail(t))
    ELSE Len(t) >= 2 /\ t[2] = "%" /\ InterpolateOk(Tail(Tail(t)))

RECURSIVE Interpolate(_)
Interpolate(t) ==
    IF t = <<>> THEN <<>>
    ELSE IF Head(t) # "%" THEN <<Head(t)>> \o Interpolate(Tail(t))
    ELSE <<"%">> \o Interpolate(Tail(Tail(t)))

\* str(n) and int(text)
DigitOf(c) == CHOOSE d \in 0..9 : Digits[d + 1] = c
IsDigit(c) == \E d \in 0..9 : Digits[d + 1] = c

RECURSIVE NatToText(_)
NatToText(n) ==
    IF n < 10 THEN <<Digits[n + 1]>> ELSE NatToText(n \div 10) \o <<Digits[(n % 10) + 1]>>

IntToText(n) == IF n < 0 THEN <<"-">> \o NatToText(0 - n) ELSE NatToText(n)

RECURSIVE DigitsToNat(_, _)
DigitsToNat(t, acc) ==
    IF t = <<>> THEN acc ELSE DigitsToNat(Tail(t), 10 * acc + DigitOf(Head(t)))

AllDigits(t) == t # <<>> /\ \A i \in 1..Len(t) : IsDigit(t[i])

\* int(text) raises ValueError unless text is an optional sign and digits
IntOk(t) ==
    LET u == Strip(t)
    IN  \/ AllDigits(u)
        \/ u # <<>> /\ Head(u) \in {"-", "+"} /\ AllDigits(Tail(u))

TextToInt(t) ==
    LET u == Strip(t)
    IN  IF Head(u) = "-" THEN 0 - DigitsToNat(Tail(u), 0)
        ELSE IF Head(u) = "+" THEN DigitsToNat(Tail(u), 0)
        ELSE DigitsToNat(u, 0)

\* read_config: the parser holds every value with its surrounding
\* whitespace stripped
read_config(file) ==
    IF file.state # "ok" THEN Raised
    ELSE Returned([s \in DOMAIN file.sections |->
                     [k \in DOMAIN file.sections[s] |-> Strip(file.sections[s][k])]])

\* parser.has_section, parser.has_option, parser.get
has_section(parser, s) == s \in DOMAIN parser
has_option(parser, s, k) == s \in DOMAIN parser /\ k \in DOMAIN parser[s]

parser_get(parser, s, k) ==
    IF ~has_option(parser, s, k) THEN Raised
    ELSE IF ~InterpolateOk(parser[s][k]) THEN Raised
    ELSE Returned(Interpolate(parser[s][k]))

\* parser.set: raises ValueError on a value before_set rejects
parser_set(parser, s, k, v) ==
    IF ~BeforeSetOk(v) THEN Raised
    ELSE Returned([parser EXCEPT ![s] =
                     [x \in DOMAIN parser[s] \cup {k} |->
                        IF x = k THEN v ELSE parser[s][x]]])

add_section(parser, s) ==
    [x \in DOMAIN parser \cup {s} |-> IF x = s THEN NoValue ELSE parser[x]]

\* write_config: open(path, 'w') fails (the file stays as it was), or it
\* truncates the file and parser.write fails (the file is left empty), or
\* the parser's content replaces the file's
WriteOutcomes == {"ok", "open_fails", "write_fails"}

write_config(file, parser, outcome) ==
    CASE outcome = "open_fails" -> [file |-> file, ret |-> FALSE]
      [] outcome = "write_fails" ->
            [file |-> [state |-> "ok", sections |-> NoSections], ret |-> FALSE]
      [] OTHER -> [file |-> [state |-> "ok", sections |-> parser], ret |-> TRUE]

ExtractionDefaults ==
    [subreddit |-> TextDataengineering, time_filter |-> TextDay, limit |-> NoLimit]

\* lines 71-77 of get_reddit_extraction_config: the section is present
extraction_values(parser) ==
    LET limit_value == parser_get(parser, "reddit_extraction", "limit")
        subreddit == parser_get(parser, "reddit_extraction", "subreddit")
        time_filter == parser_get(parser, "reddit_extraction", "time_filter")
    IN  IF limit_value.exc \/ subreddit.exc \/ time_filter.exc THEN Raised
        ELSE IF limit_value.val = TextNone
             THEN Returned([subreddit |-> subreddit.val,
                            time_filter |-> time_filter.val, limit |-> NoLimit])
        ELSE IF ~IntOk(limit_value.val) THEN Raised
        ELSE Returned([subreddit |-> subreddit.val, time_filter |-> time_filter.val,
                       limit |-> Limit(TextToInt(limit_value.val))])

\* get_reddit_extraction_config without its has_section test
get_reddit_extraction_config_no_default(file) ==
    LET parser == read_config(file)
    IN  IF parser.exc THEN Raised ELSE extraction_values(parser.val)

get_reddit_extraction_config(file) ==
    LET parser == read_config(file)
    IN  IF parser.exc THEN Raised
        ELSE IF ~has_section(parser.val, "reddit_extraction")
             THEN Returned(ExtractionDefaults)
        ELSE extraction_values(parser.val)

\* lines 93-102 of update_reddit_extraction_config: the parser read from
\* the file with the three keys set, or the exception raised on the way
updated_parser(file, subreddit, time_filter, limit) ==
    LET parser == read_config(file)
        p0 == IF has_section(parser.val, "reddit_extraction") THEN parser.val
              ELSE add_section(parser.val, "reddit_extraction")
        p1 == parser_set(p0, "reddit_extraction", "subreddit", subreddit)
        p2 == parser_set(p1.val, "reddit_extraction", "time_filter", time_filter)
        p3 == parser_set(p2.val, "reddit_extraction", "limit",
                         IF limit = NoLimit THEN TextNone ELSE IntToText(limit[1]))
    IN  IF parser.exc \/ p1.exc \/ p2.exc THEN Raised ELSE p3

\* the body of update_reddit_extraction_config's try block
update_reddit_extraction_config_try(file, subreddit, time_filter, limit, outcome) ==
    LET parser == updated_parser(file, subreddit, time_filter, limit)
    IN  IF parser.exc THEN [exc |-> TRUE, file |-> file, ret |-> FALSE]
        ELSE [exc |-> FALSE] @@ write_config(file, parser.val, outcome)

\* update_reddit_extraction_config that sets the three keys in a parser of
\* its own, not in the one read from the file
update_with_fresh_parser(file, subreddit, time_filter, limit, outcome) ==
    LET r == update_reddit_extraction_config_try(
                 IF file.state = "ok" THEN [state |-> "ok", sections |-> NoSections]
                 ELSE file,
                 subreddit, time_filter, limit, outcome)
    IN  [file |-> IF r.ret THEN r.file ELSE file, ret |-> r.ret]

\* update_reddit_extraction_config: the except branch returns False
update_reddit_extraction_config(file, subreddit, time_filter, limit, outcome) ==
    LET r == update_reddit_extraction_config_try(file, subreddit, time_filter,
                                                 limit, outcome)
    IN  [file |-> r.file, ret |-> r.ret]

AwsKeys ==
    {"bucket_name", "redshift_username", "redshift_password", "redshift_hostname",
     "redshift_role", "redshift_port", "redshift_database", "account_id", "aws_region"}

\* get_aws_config: {} without the section, else all nine keys
get_aws_config(file) ==
    LET parser == read_config(file)
        got == [k \in AwsKeys |-> parser_get(parser.val, "aws_config", k)]
    IN  IF parser.exc THEN Raised
        ELSE IF ~has_section(parser.val, "aws_config") THEN Returned(NoValue)
        ELSE IF \E k \in AwsKeys : got[k].exc THEN Raised
        ELSE Returned([k \in AwsKeys |-> got[k].val])

\* validate_config.  An error message is the record of what it names: kind
\* "file" (no file at the path), "section" (a section is absent) or "key" (a
\* key is absent from a section that is present)
required_sections == <<"aws_config", "reddit_config", "reddit_extraction">>
required_aws_keys ==
    <<"bucket_name", "redshift_username", "redshift_password", "redshift_hostname",
      "redshift_database">>
required_reddit_keys == <<"secret", "client_id">>
required_extraction_keys == <<"subreddit", "time_filter", "limit">>

FileNotFound == [kind |-> "file", section |-> "", key |-> ""]
MissingSection(s) == [kind |-> "section", section |-> s, key |-> ""]
MissingKey(s, k) == [kind |-> "key", section |-> s, key |-> k]

\* lines 169-195 of validate_config: the errors list over a parsed file
validation_errors(parser) ==
    LET absent == SelectSeq(required_sections, LAMBDA s : ~has_section(parser, s))
        lacking(s, keys) ==
            IF has_section(parser, s)
            THEN SelectSeq(keys, LAMBDA k : ~has_option(parser, s, k))
            ELSE <<>>
        key_errors(s, keys) ==
            [i \in 1..Len(lacking(s, keys)) |-> MissingKey(s, lacking(s, keys)[i])]
    IN  [i \in 1..Len(absent) |-> MissingSection(absent[i])]
        \o key_errors("aws_config", required_aws_keys)
        \o key_errors("reddit_config", required_reddit_keys)
        \o key_errors("reddit_extraction", required_extraction_keys)

\* validate_config that stops at the first violation it finds
validate_config_first_only(file) ==
    LET parser == read_config(file)
        errors == validation_errors(parser.val)
    IN  IF file.state = "missing"
        THEN Returned([errors |-> <<FileNotFound>>, is_valid |-> FALSE])
        ELSE IF parser.exc THEN Raised
        ELSE Returned([errors |-> IF errors = <<>> THEN <<>> ELSE <<Head(errors)>>,
                       is_valid |-> errors = <<>>])

\* validate_config: only FileNotFoundError is caught; a file that does not
\* parse raises to the caller
validate_config(file) ==
    LET parser == read_config(file)
        errors == validation_errors(parser.val)
    IN  IF file.state = "missing"
        THEN Returned([errors |-> <<FileNotFound>>, is_valid |-> FALSE])
        ELSE IF parser.exc THEN Raised
        ELSE Returned([errors |-> errors, is_valid |-> Len(errors) = 0])

(***************************************************************************)
(* The warehouse source and the resolver.                                  *)
(***************************************************************************)
RemoteCols == {"id", "created_utc"}
RemoteRows == [id : Ids, created_utc : Timestamps]

\* pd.read_sql_query("SELECT * FROM reddit ORDER BY created_utc DESC"): the
\* table's rows, row j carrying src = <<0, j>> for its other column values
read_sql_query(table) ==
    DataFrame(RemoteCols,
              sort_values([j \in 1..Len(table) |->
                             [id |-> table[j].id, created_utc |-> table[j].created_utc,
                              src |-> <<0, j>>]]))

\* the body of load_from_redshift's try block; connOpen: a connection was
\* opened and not closed
load_from_redshift_try(file, connectOk, queryOk, table) ==
    LET config == get_aws_config(file)
    IN  IF config.exc THEN [exc |-> TRUE, val |-> None, connOpen |-> FALSE]
        ELSE IF "redshift_database" \notin DOMAIN config.val
             THEN [exc |-> TRUE, val |-> None, connOpen |-> FALSE]
        ELSE IF ~connectOk THEN [exc |-> TRUE, val |-> None, connOpen |-> FALSE]
        ELSE IF ~queryOk THEN [exc |-> TRUE, val |-> None, connOpen |-> TRUE]
        ELSE [exc |-> FALSE, val |-> read_sql_query(table), connOpen |-> FALSE]

\* load_from_redshift with no except branch: the exception reaches the caller
load_from_redshift_no_except(file, connectOk, queryOk, table) ==
    [exc |-> load_from_redshift_try(file, connectOk, queryOk, table).exc,
     val |-> load_from_redshift_try(file, connectOk, queryOk, table).val,
     connOpen |-> load_from_redshift_try(file, connectOk, queryOk, table).connOpen]

\* load_from_redshift: the except branch returns None
load_from_redshift(file, connectOk, queryOk, table) ==
    LET r == load_from_redshift_try(file, connectOk, queryOk, table)
    IN  IF r.exc THEN [exc |-> FALSE, val |-> None, connOpen |-> r.connOpen] ELSE r

\* load_data that returns the primary's table whenever it is not None, empty
\* or not
load_data_first_not_none(prefer_redshift, redshift, local) ==
    LET first == IF prefer_redshift THEN redshift ELSE local
        second == IF prefer_redshift THEN local ELSE redshift
        a1 == IF prefer_redshift THEN "redshift" ELSE "local"
        a2 == IF prefer_redshift THEN "local" ELSE "redshift"
    IN  IF first.exc THEN [exc |-> TRUE, val |-> None, attempted |-> <<a1>>]
        ELSE IF ~first.val.none
             THEN [exc |-> FALSE, val |-> first.val, attempted |-> <<a1>>]
        ELSE [exc |-> second.exc, val |-> IF second.exc THEN None ELSE second.val,
              attempted |-> <<a1, a2>>]

\* load_data over the two sources' calls, redshift and local, each made
\* only when the code reaches it; attempted lists the calls made
load_data(prefer_redshift, redshift, local) ==
    LET first == IF prefer_redshift THEN redshift ELSE local
        second == IF prefer_redshift THEN local ELSE redshift
        a1 == IF prefer_redshift THEN "redshift" ELSE "local"
        a2 == IF prefer_redshift THEN "local" ELSE "redshift"
    IN  IF first.exc THEN [exc |-> TRUE, val |-> None, attempted |-> <<a1>>]
        ELSE IF ~first.val.none /\ ~IsEmpty(first.val)
             THEN [exc |-> FALSE, val |-> first.val, attempted |-> <<a1>>]
        ELSE [exc |-> second.exc, val |-> IF second.exc THEN None ELSE second.val,
              attempted |-> <<a1, a2>>]

(***************************************************************************)
(* The summary.  A dict is a function from its keys; {} has no key.        *)
(***************************************************************************)
SummaryFields ==
    {"total_posts", "date_range", "total_score", "total_comments", "avg_score",
     "avg_comments", "unique_authors", "nsfw_count", "edited_count"}

EmptyDict == [k \in {} |-> 0]
PyNone == "None"

RECURSIVE SumFrom(_, _, _)
SumFrom(rows, col, i) ==
    IF i > Len(rows) THEN 0 ELSE rows[i][col] + SumFrom(rows, col, i + 1)

\* Series.sum(), Series.mean() (the quotient sum / len as [num, den]),
\* Series.nunique(), Series.min() and Series.max() of a timestamp column
col_sum(rows, col) == SumFrom(rows, col, 1)
col_mean(rows, col) == [num |-> col_sum(rows, col), den |-> Len(rows)]
col_nunique(rows, col) == Cardinality({rows[i][col] : i \in 1..Len(rows)})
col_min(rows, col) ==
    LET vals == {rows[i][col] : i \in 1..Len(rows)}
    IN  CHOOSE v \in vals : \A w \in vals : TsRank(v) <= TsRank(w)
col_max(rows, col) ==
    LET vals == {rows[i][col] : i \in 1..Len(rows)}
    IN  CHOOSE v \in vals : \A w \in vals : TsRank(v) >= TsRank(w)

\* lines 152-165 of get_data_summary: the table has rows
summary_record(d) ==
    LET has(c) == c \in d.cols
    IN  [total_posts |-> Len(d.rows),
         date_range |->
            [start |-> IF has("created_utc") THEN col_min(d.rows, "created_utc") ELSE PyNone,
             end |-> IF has("created_utc") THEN col_max(d.rows, "created_utc") ELSE PyNone],
         total_score |-> IF has("score") THEN col_sum(d.rows, "score") ELSE 0,
         total_comments |->
            IF has("num_comments") THEN col_sum(d.rows, "num_comments") ELSE 0,
         avg_score |->
            IF has("score") THEN col_mean(d.rows, "score") ELSE [num |-> 0, den |-> 1],
         avg_comments |->
            IF has("num_comments") THEN col_mean(d.rows, "num_comments")
            ELSE [num |-> 0, den |-> 1],
         unique_authors |-> IF has("author") THEN col_nunique(d.rows, "author") ELSE 0,
         nsfw_count |-> IF has("over_18") THEN col_sum(d.rows, "over_18") ELSE 0,
         edited_count |-> IF has("edited") THEN col_sum(d.rows, "edited") ELSE 0]

get_data_summary(d) ==
    IF d.none \/ IsEmpty(d) THEN EmptyDict ELSE summary_record(d)

(***************************************************************************)
(* State.                                                                  *)
(***************************************************************************)
VARIABLES
    cfgFile,        \* the settings file
    dataDir,        \* the CSV files of the data directory, in scan order
    altDir,         \* the CSV files of the fallback directory
    localCols,      \* the columns of the CSV files
    redshiftTable,  \* the rows of the warehouse table
    call,           \* the operation that ran last
    env,            \* what the environment did during the last load
    loaded,         \* the last load: its result, the sources it called
    df,             \* the table handed to get_data_summary
    summary,        \* what get_data_summary returned
    lastUpdate,     \* the last update_reddit_extraction_config call
    getRet,         \* what the last get_reddit_extraction_config returned
    validation,     \* what the last validate_config returned
    chart,          \* the last chart call: its arguments and what it returned
    updaters,       \* the update calls in progress, each at its own step
    cfgBefore,      \* the settings file before the calls in progress began
    viewer          \* the Data Viewer page: its clock, its cache, its last load

vars == <<cfgFile, dataDir, altDir, localCols, redshiftTable, call, env, loaded,
          df, summary, lastUpdate, getRet, validation, chart, updaters, cfgBefore,
          viewer>>

(***************************************************************************)
(* Settings files.                                                         *)
(***************************************************************************)
ApiKeys == {"secret", "client_id", "developer", "name"}

Section(name, keys, value) == name :> [k \in keys |-> value]

\* get_reddit_api_config: {} without the section, else all four keys
get_reddit_api_config(file) ==
    LET parser == read_config(file)
        got == [k \in ApiKeys |-> parser_get(parser.val, "reddit_config", k)]
    IN  IF parser.exc THEN Raised
        ELSE IF ~has_section(parser.val, "reddit_config") THEN Returned(NoValue)
        ELSE IF \E k \in ApiKeys : got[k].exc THEN Raised
        ELSE Returned([k \in ApiKeys |-> got[k].val])

\* extraction sections as a file may hold them: a limit that is the
\* sentinel, a number or no number, and a section without its limit key
ExtractionSections ==
    {[subreddit |-> <<"a">>, time_filter |-> TextDay, limit |-> l] :
        l \in {TextNone, <<"7">>, <<"a">>}}
    \cup {[subreddit |-> <<"a">>, time_filter |-> TextAll]}

\* what a file holds beside the extraction section: nothing, or the
\* warehouse and the source-API sections
OtherSections ==
    {NoSections,
     Section("aws_config", AwsKeys, <<"a">>) @@ Section("reddit_config", ApiKeys, <<"a">>)}

FileOf(sections) == [state |-> "ok", sections |-> sections]
MissingFile == [state |-> "missing", sections |-> NoSections]
MalformedFile == [state |-> "malformed", sections |-> NoSections]

SettingsFiles ==
    {MissingFile, MalformedFile}
    \cup {FileOf(other @@ ext) :
            other \in OtherSections,
            ext \in {"reddit_extraction" :> e : e \in ExtractionSections}
                    \cup {NoSections}}

CompleteFile ==
    FileOf(Section("aws_config", AwsKeys, <<"a">>)
           @@ Section("reddit_config", ApiKeys, <<"a">>)
           @@ ("reddit_extraction" :>
                 [subreddit |-> <<"a">>, time_filter |-> TextDay, limit |-> TextNone]))

\* the settings files the resolver is explored with: no file, no warehouse
\* section, a warehouse section without its database key, a complete file
ResolverFiles ==
    {MissingFile, CompleteFile,
     FileOf(Section("reddit_config", ApiKeys, <<"a">>)),
     FileOf(Section("aws_config", AwsKeys \ {"redshift_database"}, <<"a">>))}

\* the data directories the resolver is explored with: no file or one file,
\* its rows dated "t1" or not dated
ResolverDirs ==
    {<<>>} \cup {<<f>> : f \in CsvFilesOver([id : Ids, created_utc : {"t1", "junk"}],
                                            MaxLoadRows)}

NotCalled == [exc |-> FALSE, val |-> NoValue]
NoUpdate == [ret |-> FALSE, args |-> NoValue]
NoEnv == [globRaises |-> FALSE, prefer_redshift |-> FALSE, remote |-> "ok"]
NoLoad == [exc |-> FALSE, val |-> None, combined |-> None, connOpen |-> FALSE,
           attempted |-> <<>>]

RemoteOutcomes == {"ok", "connect_fails", "query_fails"}

\* a figure or an image is [none, data]: go.Figure() has no data, and none
\* is TRUE for Python's None
EmptyFigure == [none |-> FALSE, data |-> <<>>]
NoChart == [n |-> 0, exc |-> FALSE, val |-> EmptyFigure, fn |-> "none",
            column |-> "", frame |-> <<>>]

\* st.cache_data's store: a function from the keys it holds to their
\* entries.  The page before any load: the clock at 0, nothing cached,
\* load_data never called, no Refresh pressed
EmptyCache == [k \in {} |-> <<>>]
NoServed == [val |-> None, key |-> FALSE, flag |-> FALSE, hit |-> FALSE, at |-> 0,
             afterRefresh |-> FALSE]
NoViewer == [now |-> 0, cache |-> EmptyCache, lastCall |-> EmptyCache,
             served |-> NoServed, pending |-> {}]

\* the sessions that may save the extraction settings at the same time
Procs == {1, 2}
Idle == [parser |-> NoSections, ret |-> FALSE, args |-> NoValue, pc |-> "idle"]
NoUpdaters == [p \in Procs |-> Idle]

(***************************************************************************)
(* The resolver: load_data over a fixed environment.                       *)
(***************************************************************************)
Init ==
    /\ cfgFile \in ResolverFiles
    /\ localCols = LocalCols
    /\ dataDir \in ResolverDirs
    /\ altDir = <<>>
    /\ redshiftTable \in SeqsUpTo(RemoteRows, MaxRemoteRows)
    /\ call = "none"
    /\ env = NoEnv
    /\ loaded = NoLoad
    /\ df = None
    /\ summary = EmptyDict
    /\ lastUpdate = NoUpdate
    /\ getRet = NotCalled
    /\ validation = NotCalled
    /\ chart = NoChart
    /\ updaters = NoUpdaters
    /\ cfgBefore = MissingFile
    /\ viewer = NoViewer

RedshiftCall(e) ==
    load_from_redshift(cfgFile, e.remote # "connect_fails", e.remote = "ok",
                       redshiftTable)
LocalCall(e) == load_local_data(dataDir, altDir, localCols, e.globRaises)

LoadData ==
    \E p \in BOOLEAN, r \in RemoteOutcomes, g \in BOOLEAN :
        \E e \in {[globRaises |-> g, prefer_redshift |-> p, remote |-> r]} :
        \E R \in {RedshiftCall(e)}, L \in {LocalCall(e)} :
        \E res \in {load_data(p, R, L)} :
        LET
            called(src) == \E i \in 1..Len(res.attempted) : res.attempted[i] = src
        IN  /\ env' = e
            /\ loaded' = [exc |-> res.exc, val |-> res.val,
                          combined |-> IF called("local") THEN L.combined ELSE None,
                          connOpen |-> called("redshift") /\ R.connOpen,
                          attempted |-> res.attempted]
            /\ call' = "load_data"
            /\ UNCHANGED <<cfgFile, dataDir, altDir, localCols, redshiftTable, df,
                           summary, lastUpdate, getRet,
                       validation, chart, updaters, cfgBefore, viewer>>

Next == LoadData

Spec == Init /\ [][Next]_vars

(***************************************************************************)
(* The local source on its own: load_local_data over every directory of    *)
(* at most two files.                                                      *)
(***************************************************************************)
LocalInit ==
    /\ cfgFile = CompleteFile
    /\ localCols \in SUBSET LocalCols
    /\ \/ dataDir \in Dirs(localCols, MaxRows) /\ altDir = <<>>
       \/ dataDir = <<>> /\ altDir \in Dirs(localCols, MaxRows) \ {<<>>}
    /\ redshiftTable = <<>>
    /\ call = "none"
    /\ env = NoEnv
    /\ loaded = NoLoad
    /\ df = None
    /\ summary = EmptyDict
    /\ lastUpdate = NoUpdate
    /\ getRet = NotCalled
    /\ validation = NotCalled
    /\ chart = NoChart
    /\ updaters = NoUpdaters
    /\ cfgBefore = MissingFile
    /\ viewer = NoViewer

LoadLocalData ==
    \E g \in BOOLEAN :
    \E L \in {load_local_data(dataDir, altDir, localCols, g)} :
        /\ env' = [globRaises |-> g, prefer_redshift |-> FALSE, remote |-> "ok"]
        /\ loaded' = [exc |-> L.exc, val |-> L.val, combined |-> L.combined,
                      connOpen |-> FALSE, attempted |-> <<"local">>]
        /\ call' = "load_local_data"
        /\ UNCHANGED <<cfgFile, dataDir, altDir, localCols, redshiftTable, df,
                       summary, lastUpdate, getRet,
                       validation, chart, updaters, cfgBefore, viewer>>

LocalNext == LoadLocalData

LocalSpec == LocalInit /\ [][LocalNext]_vars

(***************************************************************************)
(* The summary on its own: get_data_summary over every small table.        *)
(***************************************************************************)
\* rows of the table handed to get_data_summary
MaxSummaryRows == 2

SummaryCols == {"created_utc", "score", "num_comments", "author", "over_18", "edited"}

\* a column the table lacks holds NaN in every row
SummaryRows(cols) ==
    [created_utc : IF "created_utc" \in cols THEN Timestamps ELSE {NaN},
     score : IF "score" \in cols THEN {1, 2} ELSE {0},
     num_comments : IF "num_comments" \in cols THEN {3} ELSE {0},
     author : IF "author" \in cols THEN {"u1", "u2"} ELSE {NaN},
     over_18 : IF "over_18" \in cols THEN {1} ELSE {0},
     edited : IF "edited" \in cols THEN {1} ELSE {0}]

\* None, and the tables of every column set; a table without columns has
\* no rows
SummaryTables ==
    {None, DataFrame({}, <<>>)}
    \cup UNION {{DataFrame(c, r) : r \in SeqsUpTo(SummaryRows(c), MaxSummaryRows)} :
                   c \in (SUBSET SummaryCols) \ {{}}}

SummaryInit ==
    /\ cfgFile = CompleteFile
    /\ localCols = LocalCols
    /\ dataDir = <<>>
    /\ altDir = <<>>
    /\ redshiftTable = <<>>
    /\ call = "none"
    /\ env = NoEnv
    /\ loaded = NoLoad
    /\ df \in SummaryTables
    /\ summary = EmptyDict
    /\ lastUpdate = NoUpdate
    /\ getRet = NotCalled
    /\ validation = NotCalled
    /\ chart = NoChart
    /\ updaters = NoUpdaters
    /\ cfgBefore = MissingFile
    /\ viewer = NoViewer

GetDataSummary ==
    /\ summary' = get_data_summary(df)
    /\ call' = "get_data_summary"
    /\ UNCHANGED <<cfgFile, dataDir, altDir, localCols, redshiftTable, env, loaded, df,
                   lastUpdate, getRet,
                       validation, chart, updaters, cfgBefore, viewer>>

SummaryNext == GetDataSummary

SummarySpec == SummaryInit /\ [][SummaryNext]_vars

(***************************************************************************)
(* The settings store: updates and reads of the extraction settings.       *)
(***************************************************************************)
SubredditInputs == SeqsUpTo(Chars, MaxStrLen)
TimeFilterInputs == {TextDay, TextAll}
LimitInputs == {NoLimit, Limit(FormMaxLimit)} \cup {Limit(n) : n \in 0..MaxLimit}

ConfigInit ==
    /\ cfgFile \in SettingsFiles
    /\ localCols = LocalCols
    /\ dataDir = <<>>
    /\ altDir = <<>>
    /\ redshiftTable = <<>>
    /\ call = "none"
    /\ env = NoEnv
    /\ loaded = NoLoad
    /\ df = None
    /\ summary = EmptyDict
    /\ lastUpdate = NoUpdate
    /\ getRet = NotCalled
    /\ validation = NotCalled
    /\ chart = NoChart
    /\ updaters = NoUpdaters
    /\ cfgBefore = MissingFile
    /\ viewer = NoViewer

\* lastUpdate keeps the arguments of a call that returned True
UpdateRedditExtractionConfig ==
    \E s \in SubredditInputs, t \in TimeFilterInputs, l \in LimitInputs,
       o \in WriteOutcomes :
    \E r \in {update_reddit_extraction_config(cfgFile, s, t, l, o)} :
        /\ cfgFile' = r.file
        /\ lastUpdate' = [ret |-> r.ret,
                          args |-> IF r.ret
                                   THEN [subreddit |-> s, time_filter |-> t, limit |-> l]
                                   ELSE NoValue]
        /\ getRet' = NotCalled
        /\ call' = "update_reddit_extraction_config"
        /\ UNCHANGED <<dataDir, altDir, localCols, redshiftTable, env, loaded, df,
                       summary,
                       validation, chart, updaters, cfgBefore, viewer>>

GetRedditExtractionConfig ==
    /\ getRet' = get_reddit_extraction_config(cfgFile)
    /\ call' = "get_reddit_extraction_config"
    /\ UNCHANGED <<cfgFile, dataDir, altDir, localCols, redshiftTable, env, loaded, df,
                   summary, lastUpdate,
                       validation, chart, updaters, cfgBefore, viewer>>

ConfigNext == UpdateRedditExtractionConfig \/ GetRedditExtractionConfig

ConfigSpec == ConfigInit /\ [][ConfigNext]_vars

(***************************************************************************)
(* Saving the extraction settings into files that hold more than the       *)
(* three keys: update_reddit_extraction_config, the file before the call   *)
(* kept in cfgBefore.                                                      *)
(***************************************************************************)
\* a warehouse section whose password stands in the file with a space
\* before it and an escaped percent sign in it
PaddedAws ==
    "aws_config" :> [k \in AwsKeys |->
                       IF k = "redshift_password" THEN <<" ", "%", "%">> ELSE <<"a">>]

\* no file, an unparsable file, an empty file, a file without extraction
\* section, a file with only that section, and a file with all the
\* sections and a fourth key in its extraction section
SaveFiles ==
    {MissingFile, MalformedFile, FileOf(NoSections),
     FileOf(PaddedAws @@ Section("reddit_config", ApiKeys, <<"a">>)),
     FileOf("reddit_extraction" :>
              [subreddit |-> <<"a">>, time_filter |-> TextAll, limit |-> <<"7">>]),
     FileOf(PaddedAws @@ Section("reddit_config", ApiKeys, <<"a">>)
            @@ ("reddit_extraction" :>
                  [subreddit |-> <<"a">>, time_filter |-> TextAll, limit |-> <<"7">>,
                   extra |-> <<" ", "a">>]))}

SaveInit ==
    /\ cfgFile \in SaveFiles
    /\ localCols = LocalCols
    /\ dataDir = <<>>
    /\ altDir = <<>>
    /\ redshiftTable = <<>>
    /\ call = "none"
    /\ env = NoEnv
    /\ loaded = NoLoad
    /\ df = None
    /\ summary = EmptyDict
    /\ lastUpdate = NoUpdate
    /\ getRet = NotCalled
    /\ validation = NotCalled
    /\ chart = NoChart
    /\ updaters = NoUpdaters
    /\ cfgBefore = cfgFile
    /\ viewer = NoViewer

\* the save button of the configuration page
SaveConfiguration ==
    \E s \in {<<"a">>, <<"b">>, <<"%">>}, t \in TimeFilterInputs,
       l \in {NoLimit, Limit(7)}, o \in WriteOutcomes :
    \E r \in {update_reddit_extraction_config(cfgFile, s, t, l, o)} :
        /\ cfgFile' = r.file
        /\ cfgBefore' = cfgFile
        /\ lastUpdate' = [ret |-> r.ret,
                          args |-> IF r.ret
                                   THEN [subreddit |-> s, time_filter |-> t, limit |-> l]
                                   ELSE NoValue]
        /\ call' = "update_reddit_extraction_config"
        /\ UNCHANGED <<dataDir, altDir, localCols, redshiftTable, env, loaded, df,
                       summary, getRet, validation, chart, updaters, viewer>>

SaveNext == SaveConfiguration

SaveSpec == SaveInit /\ [][SaveNext]_vars

(***************************************************************************)
(* Two sessions saving at the same time.  Nothing coordinates the calls    *)
(* of update_reddit_extraction_config, so each one's steps are taken       *)
(* apart: the read of the file (lines 93-102), the open of write_config,   *)
(* which truncates the file (line 46), and the write of the parser at the  *)
(* close (line 47).  A write replaces what the file holds; the tail that   *)
(* a longer write made in between would leave behind is not modelled.      *)
(***************************************************************************)
ConcurrentFiles ==
    {CompleteFile, FileOf(NoSections),
     FileOf(PaddedAws @@ Section("reddit_config", ApiKeys, <<"a">>))}

ConcurrentInit ==
    /\ cfgFile \in ConcurrentFiles
    /\ localCols = LocalCols
    /\ dataDir = <<>>
    /\ altDir = <<>>
    /\ redshiftTable = <<>>
    /\ call = "none"
    /\ env = NoEnv
    /\ loaded = NoLoad
    /\ df = None
    /\ summary = EmptyDict
    /\ lastUpdate = NoUpdate
    /\ getRet = NotCalled
    /\ validation = NotCalled
    /\ chart = NoChart
    /\ updaters = NoUpdaters
    /\ cfgBefore = cfgFile
    /\ viewer = NoViewer

\* what a step of an update leaves alone
UpdaterFrame ==
    /\ call' = "update_reddit_extraction_config"
    /\ UNCHANGED <<dataDir, altDir, localCols, redshiftTable, env, loaded, df, summary,
                   getRet, validation, chart, cfgBefore, viewer>>

\* lines 93-102: the call reads the file and sets its three keys; an
\* exception ends the call with False
UpdaterRead(p) ==
    /\ updaters[p].pc = "idle"
    /\ \E s \in {<<"a">>, <<"b">>}, t \in TimeFilterInputs, l \in {NoLimit, Limit(7)} :
       \E parser \in {updated_parser(cfgFile, s, t, l)} :
          updaters' = [updaters EXCEPT ![p] =
              [parser |-> IF parser.exc THEN NoSections ELSE parser.val,
               ret |-> FALSE,
               args |-> [subreddit |-> s, time_filter |-> t, limit |-> l],
               pc |-> IF parser.exc THEN "done" ELSE "open"]]
    /\ UNCHANGED <<cfgFile, lastUpdate>>
    /\ UpdaterFrame

\* line 46: open(config_path, 'w') leaves the file empty, or fails
UpdaterOpen(p) ==
    /\ updaters[p].pc = "open"
    /\ \E ok \in BOOLEAN :
          /\ updaters' = [updaters EXCEPT ![p].pc = IF ok THEN "write" ELSE "done"]
          /\ cfgFile' = IF ok THEN FileOf(NoSections) ELSE cfgFile
    /\ UNCHANGED lastUpdate
    /\ UpdaterFrame

\* lines 47-51: the parser's content reaches the file and the call returns
\* True, or the write fails and the call returns False
UpdaterWrite(p) ==
    /\ updaters[p].pc = "write"
    /\ \E ok \in BOOLEAN :
          /\ updaters' = [updaters EXCEPT ![p].pc = "done", ![p].ret = ok]
          /\ cfgFile' = IF ok THEN FileOf(updaters[p].parser) ELSE cfgFile
          /\ lastUpdate' = IF ok THEN [ret |-> TRUE, args |-> updaters[p].args]
                           ELSE lastUpdate
    /\ UpdaterFrame

ConcurrentNext ==
    \E p \in Procs : UpdaterRead(p) \/ UpdaterOpen(p) \/ UpdaterWrite(p)

ConcurrentSpec == ConcurrentInit /\ [][ConcurrentNext]_vars

(***************************************************************************)
(* One session saving while another reads.  The saving call takes the      *)
(* steps above; get_reddit_extraction_config reads the file as it stands   *)
(* at one of them (its parser.read is taken as one step, so a file that    *)
(* is written in part is not modelled).                                    *)
(***************************************************************************)
ReadWriteNext ==
    \/ UpdaterRead(1)
    \/ UpdaterOpen(1)
    \/ UpdaterWrite(1)
    \/ GetRedditExtractionConfig

ReadWriteSpec == ConcurrentInit /\ [][ReadWriteNext]_vars

(***************************************************************************)
(* The configuration page: the form's save button, pressed any number of   *)
(* times on a file that starts complete.  The page reads the settings      *)
(* before it draws the form, the subreddit is whatever text the field      *)
(* holds, the time filter is one of the select box's options, and the      *)
(* limit is None or a number the number field lets through.                *)
(***************************************************************************)
\* the smallest limit the configuration form accepts
FormMinLimit == 1

time_filter_options ==
    <<<<"h", "o", "u", "r">>, TextDay, <<"w", "e", "e", "k">>, <<"m", "o", "n", "t", "h">>,
      <<"y", "e", "a", "r">>, TextAll>>

\* st.text_input: the empty text, a blank, a name, and texts with percent
\* signs
FormSubreddits == {<<>>, <<" ">>, <<"a">>, <<"%">>, <<"%", "%">>}
FormLimits == {NoLimit, Limit(FormMinLimit), Limit(FormMaxLimit)}

FormInit ==
    /\ cfgFile = CompleteFile
    /\ localCols = LocalCols
    /\ dataDir = <<>>
    /\ altDir = <<>>
    /\ redshiftTable = <<>>
    /\ call = "none"
    /\ env = NoEnv
    /\ loaded = NoLoad
    /\ df = None
    /\ summary = EmptyDict
    /\ lastUpdate = NoUpdate
    /\ getRet = NotCalled
    /\ validation = NotCalled
    /\ chart = NoChart
    /\ updaters = NoUpdaters
    /\ cfgBefore = MissingFile
    /\ viewer = NoViewer

\* lines 207-285: the page reads current_config, looks its time filter up
\* among the options (either may raise, and then no form is drawn), and the
\* save button hands the form's three values to the update
save_btn ==
    \E current_config \in {get_reddit_extraction_config(cfgFile)} :
        /\ ~current_config.exc
        /\ \E i \in 1..Len(time_filter_options) :
               time_filter_options[i] = current_config.val.time_filter
        /\ \E subreddit \in FormSubreddits, i \in 1..Len(time_filter_options),
                limit \in FormLimits, o \in WriteOutcomes :
           \E r \in {update_reddit_extraction_config(cfgFile, subreddit,
                                                     time_filter_options[i], limit, o)} :
               /\ cfgFile' = r.file
               /\ lastUpdate' =
                      [ret |-> r.ret,
                       args |-> IF r.ret
                                THEN [subreddit |-> subreddit,
                                      time_filter |-> time_filter_options[i],
                                      limit |-> limit]
                                ELSE NoValue]
               /\ call' = "update_reddit_extraction_config"
               /\ UNCHANGED <<dataDir, altDir, localCols, redshiftTable, env, loaded, df,
                              summary, getRet, validation, chart, updaters, cfgBefore, viewer>>

FormNext == save_btn

FormSpec == FormInit /\ [][FormNext]_vars

(***************************************************************************)
(* The validation on its own: validate_config over files that lack some    *)
(* of their sections and keys.                                             *)
(***************************************************************************)
\* a section that is absent, or present without some of the keys in drop
SectionVariants(name, keys, drop) ==
    {NoSections} \cup {Section(name, keys \ D, <<"a">>) : D \in SUBSET drop}

\* the file with key k of its section s taken out, or holding value there
Without(file, s, k) ==
    FileOf([file.sections EXCEPT ![s] = [x \in DOMAIN @ \ {k} |-> @[x]]])
With(file, s, k, value) == FileOf([file.sections EXCEPT ![s][k] = value])

\* files that hold every required section and key: the complete file, the
\* file with a number, with no number and with a lone percent sign as its
\* limit, and the files without one of the keys validate_config does not ask
\* for
RequiredOnlyFiles ==
    {CompleteFile,
     With(CompleteFile, "reddit_extraction", "limit", <<"7">>),
     With(CompleteFile, "reddit_extraction", "limit", <<"a">>),
     With(CompleteFile, "aws_config", "redshift_password", <<"%">>),
     Without(CompleteFile, "aws_config", "redshift_port"),
     Without(CompleteFile, "aws_config", "aws_region"),
     Without(CompleteFile, "reddit_config", "developer")}

ValidateFiles ==
    {MissingFile, MalformedFile}
    \cup RequiredOnlyFiles
    \cup {FileOf(a @@ r @@ e) :
            a \in SectionVariants("aws_config", AwsKeys,
                                  {"bucket_name", "redshift_password", "redshift_port"}),
            r \in SectionVariants("reddit_config", ApiKeys, {"secret", "client_id"}),
            e \in SectionVariants("reddit_extraction",
                                  {"subreddit", "time_filter", "limit"},
                                  {"subreddit", "limit"})}

ValidateInit ==
    /\ cfgFile \in ValidateFiles
    /\ localCols = LocalCols
    /\ dataDir = <<>>
    /\ altDir = <<>>
    /\ redshiftTable = <<>>
    /\ call = "none"
    /\ env = NoEnv
    /\ loaded = NoLoad
    /\ df = None
    /\ summary = EmptyDict
    /\ lastUpdate = NoUpdate
    /\ getRet = NotCalled
    /\ validation = NotCalled
    /\ chart = NoChart
    /\ updaters = NoUpdaters
    /\ cfgBefore = MissingFile
    /\ viewer = NoViewer

ValidateConfig ==
    /\ validation' = validate_config(cfgFile)
    /\ call' = "validate_config"
    /\ UNCHANGED <<cfgFile, dataDir, altDir, localCols, redshiftTable, env, loaded, df,
                   summary, lastUpdate, getRet, chart, updaters, cfgBefore, viewer>>

ValidateNext == ValidateConfig

ValidateSpec == ValidateInit /\ [][ValidateNext]_vars

(***************************************************************************)
(* The charts (streamlit_utils/visualizations.py).  A chart call returns   *)
(* [exc, val, frame]: val is the figure, frame the table the figure was    *)
(* drawn from.  The timestamp "d1" is a Wednesday at 23 h and "d2" the     *)
(* Thursday after it at 0 h.                                               *)
(***************************************************************************)
\* rows of the table handed to a chart
MaxChartRows == 2
\* the largest n handed to create_top_posts_chart
MaxTopN == 3
\* x[:50]: the longest title shown in full
TitleLimit == 50

ShortTitle == <<"a">>
LongTitle == [i \in 1..(TitleLimit + 1) |-> "b"]

dt_date(ts) == IF ts = "d1" THEN 1 ELSE 2
dt_day_name(ts) == IF ts = "d1" THEN "Wednesday" ELSE "Thursday"
dt_hour(ts) == IF ts = "d1" THEN 23 ELSE 0

days_order ==
    <<"Monday", "Tuesday", "Wednesday", "Thursday", "Friday", "Saturday", "Sunday">>

\* the numbers of S in ascending order
RECURSIVE SortedAsc(_)
SortedAsc(S) ==
    IF S = {} THEN <<>>
    ELSE LET m == CHOOSE x \in S : \A y \in S : x <= y
         IN  <<m>> \o SortedAsc(S \ {m})

ChartRaised == [exc |-> TRUE, val |-> EmptyFigure, frame |-> <<>>]
Figure(trace, frame) ==
    [exc |-> FALSE, val |-> [none |-> FALSE, data |-> <<trace>>], frame |-> frame]
NoFigure == [exc |-> FALSE, val |-> EmptyFigure, frame |-> <<>>]

Column(rows, col) == [i \in 1..Len(rows) |-> rows[i][col]]

\* df.nlargest(n, metric) with keep='last': of rows of equal value the later
\* ones are taken first
nlargest_keep_last(rows, n, metric) ==
    LET place(i) == 1 + Cardinality({j \in 1..Len(rows) :
                          \/ rows[j][metric] > rows[i][metric]
                          \/ rows[j][metric] = rows[i][metric] /\ j > i})
        sorted == [k \in 1..Len(rows) |->
                     LET i == CHOOSE i \in 1..Len(rows) : place(i) = k
                     IN  [index |-> i] @@ rows[i]]
    IN  IF n <= 0 THEN <<>>
        ELSE SubSeq(sorted, 1, IF n < Len(rows) THEN n ELSE Len(rows))

\* df.nlargest(n, metric), keep='first': the rows in descending order of
\* metric, rows of equal value in table order, and the first n of them; each
\* keeps its index, its place in the table
nlargest(rows, n, metric) ==
    LET place(i) == 1 + Cardinality({j \in 1..Len(rows) :
                          \/ rows[j][metric] > rows[i][metric]
                          \/ rows[j][metric] = rows[i][metric] /\ j < i})
        sorted == [k \in 1..Len(rows) |->
                     LET i == CHOOSE i \in 1..Len(rows) : place(i) = k
                     IN  [index |-> i] @@ rows[i]]
    IN  IF n <= 0 THEN <<>>
        ELSE SubSeq(sorted, 1, IF n < Len(rows) THEN n ELSE Len(rows))

\* Series.value_counts(): the values that are not missing with their
\* counts, the most frequent first.  pandas leaves the order of values of
\* equal count to the sort; here the one met first comes first, and no
\* claim below reads that order
value_counts(rows, col) ==
    LET at(v) == {i \in 1..Len(rows) : rows[i][col] = v}
        vals == {rows[i][col] : i \in 1..Len(rows)} \ {NaN}
        first(v) == CHOOSE i \in at(v) : \A j \in at(v) : i <= j
        place(v) == 1 + Cardinality({w \in vals :
                          \/ Cardinality(at(w)) > Cardinality(at(v))
                          \/ Cardinality(at(w)) = Cardinality(at(v)) /\ first(w) < first(v)})
    IN  [k \in 1..Cardinality(vals) |->
            LET v == CHOOSE v \in vals : place(v) = k
            IN  [value |-> v, count |-> Cardinality(at(v))]]

\* create_time_series_chart: daily_data has one row per date, with the sum
\* of metric (the column the code names after the metric) and the count of
\* ids; groupby leaves out the rows whose date is missing
create_time_series_chart(d, metric) ==
    LET parsed == to_datetime(d.rows)
        dated == SelectSeq(parsed, LAMBDA r : r.created_utc # NaT)
        dates == SortedAsc({dt_date(dated[i].created_utc) : i \in 1..Len(dated)})
        on(date) == SelectSeq(dated, LAMBDA r : dt_date(r.created_utc) = date)
        daily_data == [k \in 1..Len(dates) |->
                         [date |-> dates[k], sum |-> col_sum(on(dates[k]), metric),
                          post_count |-> Len(on(dates[k]))]]
    IN  IF d.none \/ IsEmpty(d) \/ "created_utc" \notin d.cols THEN NoFigure
        ELSE IF to_datetime_raises(d.rows) THEN ChartRaised
        ELSE IF metric \notin d.cols \/ "id" \notin d.cols THEN ChartRaised
        ELSE Figure([x |-> Column(daily_data, "date"), y |-> Column(daily_data, "sum")],
                    daily_data)

\* x[:50] + '...' if len(x) > 50 else x
short_title(x) ==
    IF Len(x) > TitleLimit THEN SubSeq(x, 1, TitleLimit) \o <<".", ".", ".">> ELSE x

\* create_top_posts_chart: top_posts holds title, metric and short_title of
\* the rows nlargest selects
create_top_posts_chart(d, n, metric) ==
    LET largest == nlargest(d.rows, n, metric)
        top_posts == [k \in 1..Len(largest) |->
                        [metric |-> largest[k][metric], index |-> largest[k].index,
                         short_title |-> short_title(largest[k].title),
                         title |-> largest[k].title]]
    IN  IF d.none \/ IsEmpty(d) THEN NoFigure
        ELSE IF metric \notin d.cols \/ "title" \notin d.cols THEN ChartRaised
        ELSE Figure([x |-> Column(top_posts, "metric"),
                     y |-> Column(top_posts, "short_title")], top_posts)

create_author_chart(d, n) ==
    LET counts == value_counts(d.rows, "author")
        author_counts == SubSeq(counts, 1, IF n < Len(counts) THEN n ELSE Len(counts))
    IN  IF d.none \/ IsEmpty(d) \/ "author" \notin d.cols THEN NoFigure
        ELSE Figure([x |-> Column(author_counts, "value"),
                     y |-> Column(author_counts, "count")], author_counts)

\* create_engagement_scatter: px.scatter raises on a column the table lacks
create_engagement_scatter(d) ==
    IF d.none \/ IsEmpty(d) THEN NoFigure
    ELSE IF ~({"num_comments", "score", "title", "author"} \subseteq d.cols)
         THEN ChartRaised
    ELSE Figure([x |-> Column(d.rows, "num_comments"), y |-> Column(d.rows, "score")],
                d.rows)

create_distribution_chart(d, column) ==
    IF d.none \/ IsEmpty(d) \/ column \notin d.cols THEN NoFigure
    ELSE Figure([x |-> Column(d.rows, column)], d.rows)

create_pie_chart(d, column) ==
    IF d.none \/ IsEmpty(d) \/ column \notin d.cols THEN NoFigure
    ELSE Figure([names |-> Column(value_counts(d.rows, column), "value"),
                 values |-> Column(value_counts(d.rows, column), "count")],
                value_counts(d.rows, column))

\* generate_wordcloud: the image of the joined texts; None without the
\* column, and None when WordCloud finds no word in them
generate_wordcloud(d, column) ==
    LET texts == Column(d.rows, column)
    IN  IF d.none \/ IsEmpty(d) \/ column \notin d.cols
        THEN [exc |-> FALSE, val |-> [none |-> TRUE, data |-> <<>>], frame |-> <<>>]
        ELSE IF \A i \in 1..Len(texts) : Strip(texts[i]) = <<>>
             THEN [exc |-> FALSE, val |-> [none |-> TRUE, data |-> <<>>], frame |-> <<>>]
        ELSE Figure([text |-> texts], <<>>)

\* create_heatmap: heatmap_pivot has a row for each day that occurs, in
\* the order of days_order, a column for each hour that occurs, and 0 where
\* a day and an hour do not occur together
create_heatmap(d) ==
    LET parsed == to_datetime(d.rows)
        dated == SelectSeq(parsed, LAMBDA r : r.created_utc # NaT)
        at(day, h) == {i \in 1..Len(dated) : /\ dt_day_name(dated[i].created_utc) = day
                                              /\ dt_hour(dated[i].created_utc) = h}
        hours == SortedAsc({dt_hour(dated[i].created_utc) : i \in 1..Len(dated)})
        days == SelectSeq(days_order, LAMBDA day :
                    \E i \in 1..Len(dated) : dt_day_name(dated[i].created_utc) = day)
        heatmap_pivot == [i \in 1..Len(days) |->
                            [j \in 1..Len(hours) |-> Cardinality(at(days[i], hours[j]))]]
    IN  IF d.none \/ IsEmpty(d) \/ "created_utc" \notin d.cols THEN NoFigure
        ELSE IF to_datetime_raises(d.rows) THEN ChartRaised
        ELSE Figure([x |-> hours, y |-> days, z |-> heatmap_pivot], heatmap_pivot)

(***************************************************************************)
(* The charts on their own: every chart over every small table, complete   *)
(* or lacking one of its columns.                                          *)
(***************************************************************************)
ChartCols == {"id", "title", "score", "num_comments", "author", "created_utc"}

\* a column the table lacks holds nothing in every row
ChartRows(cols) ==
    [id : IF "id" \in cols THEN {"p1"} ELSE {NaN},
     title : IF "title" \in cols THEN {ShortTitle, LongTitle} ELSE {<<>>},
     score : IF "score" \in cols THEN {1, 2} ELSE {0},
     num_comments : IF "num_comments" \in cols THEN {3} ELSE {0},
     author : IF "author" \in cols THEN {"u1"} ELSE {NaN},
     created_utc : IF "created_utc" \in cols THEN Timestamps \cup {NaT, "junk"}
                   ELSE {NaN}]

\* None, the table without rows, the complete tables, and the tables of one
\* row that lack one column
ChartTables ==
    {None, DataFrame({}, <<>>)}
    \cup {DataFrame(ChartCols, r) : r \in SeqsUpTo(ChartRows(ChartCols), MaxChartRows)}
    \cup UNION {{DataFrame(c, <<r>>) : r \in ChartRows(c)} :
                   c \in {ChartCols \ {x} : x \in ChartCols}}

ChartInit ==
    /\ cfgFile = CompleteFile
    /\ localCols = LocalCols
    /\ dataDir = <<>>
    /\ altDir = <<>>
    /\ redshiftTable = <<>>
    /\ call = "none"
    /\ env = NoEnv
    /\ loaded = NoLoad
    /\ df \in ChartTables
    /\ summary = EmptyDict
    /\ lastUpdate = NoUpdate
    /\ getRet = NotCalled
    /\ validation = NotCalled
    /\ chart = NoChart
    /\ updaters = NoUpdaters
    /\ cfgBefore = MissingFile
    /\ viewer = NoViewer

\* a chart function called on df with n and column (0 and "" where it takes
\* none) returned or raised r
ChartCall(fn, n, column, r) ==
    /\ chart' = [n |-> n, exc |-> r.exc, val |-> r.val, fn |-> fn, column |-> column,
                 frame |-> r.frame]
    /\ call' = fn
    /\ UNCHANGED <<cfgFile, dataDir, altDir, localCols, redshiftTable, env, loaded, df,
                   summary, lastUpdate, getRet, validation, updaters, cfgBefore, viewer>>

Metrics == {"score", "num_comments"}

CreateTimeSeriesChart ==
    \E metric \in Metrics :
        ChartCall("create_time_series_chart", 0, metric,
                  create_time_series_chart(df, metric))

CreateTopPostsChart ==
    \E n \in 0..MaxTopN, metric \in Metrics :
        ChartCall("create_top_posts_chart", n, metric,
                  create_top_posts_chart(df, n, metric))

CreateAuthorChart ==
    \E n \in {1, 10} : ChartCall("create_author_chart", n, "", create_author_chart(df, n))

CreateEngagementScatter ==
    ChartCall("create_engagement_scatter", 0, "", create_engagement_scatter(df))

CreateDistributionChart ==
    \E column \in Metrics :
        ChartCall("create_distribution_chart", 0, column,
                  create_distribution_chart(df, column))

CreatePieChart ==
    ChartCall("create_pie_chart", 0, "author", create_pie_chart(df, "author"))

GenerateWordcloud ==
    ChartCall("generate_wordcloud", 0, "title", generate_wordcloud(df, "title"))

CreateHeatmap == ChartCall("create_heatmap", 0, "", create_heatmap(df))

ChartNext ==
    \/ CreateTimeSeriesChart
    \/ CreateTopPostsChart
    \/ CreateAuthorChart
    \/ CreateEngagementScatter
    \/ CreateDistributionChart
    \/ CreatePieChart
    \/ GenerateWordcloud
    \/ CreateHeatmap

ChartSpec == ChartInit /\ [][ChartNext]_vars

(***************************************************************************)
(* The Data Viewer's memoized load: load_cached_data is load_data behind   *)
(* st.cache_data(ttl=300).  The cache holds one entry for each argument    *)
(* value it was called with; an entry lives for ttl seconds from the call  *)
(* that made it (cachetools.TTLCache: it is gone once the clock reaches    *)
(* the entry's time plus ttl), and st.cache_data.clear() empties the       *)
(* cache.  viewer.lastCall keeps, for each flag value, the last load_data  *)
(* call made with it; viewer.pending holds the flag values not loaded      *)
(* since the last Refresh.                                                 *)
(***************************************************************************)
\* ttl=300
CacheTtl == 300
\* the clock runs over this many ttl periods
MaxWindows == 1

\* the instants the page is run at: the second before a multiple of ttl,
\* that second, and the second after
Instants ==
    {t \in {k * CacheTtl + e : k \in 0..MaxWindows, e \in {-1, 0, 1}} : t >= 0}

\* the entries whose ttl has not run out
expire(cache, now) ==
    [k \in {x \in DOMAIN cache : now - cache[x].at < CacheTtl} |-> cache[k]]

\* a lookup that takes the key's entry whatever its age
cache_get_no_ttl(cache, key, now) ==
    IF key \in DOMAIN cache
    THEN [val |-> cache[key].val, key |-> cache[key].key, hit |-> TRUE]
    ELSE [val |-> None, key |-> key, hit |-> FALSE]

\* the lookup of the cached function: the entry of the key, if it is live
cache_get(cache, key, now) ==
    LET live == expire(cache, now)
    IN  IF key \in DOMAIN live
        THEN [val |-> live[key].val, key |-> live[key].key, hit |-> TRUE]
        ELSE [val |-> None, key |-> key, hit |-> FALSE]

cache_set(cache, key, val, now) ==
    [k \in DOMAIN cache \cup {key} |->
        IF k = key THEN [val |-> val, key |-> key, at |-> now] ELSE cache[k]]

\* one local file of one row, and a warehouse table of one other row
ViewerInit ==
    /\ cfgFile = CompleteFile
    /\ localCols = LocalCols
    /\ dataDir = <<[rows |-> <<[id |-> "p1", created_utc |-> "t1"]>>, ok |-> TRUE]>>
    /\ altDir = <<>>
    /\ redshiftTable = <<[id |-> "p2", created_utc |-> "d2"]>>
    /\ call = "none"
    /\ env = NoEnv
    /\ loaded = NoLoad
    /\ df = None
    /\ summary = EmptyDict
    /\ lastUpdate = NoUpdate
    /\ getRet = NotCalled
    /\ validation = NotCalled
    /\ chart = NoChart
    /\ updaters = NoUpdaters
    /\ cfgBefore = MissingFile
    /\ viewer = NoViewer

ViewerFrame ==
    UNCHANGED <<cfgFile, dataDir, altDir, localCols, redshiftTable, summary, lastUpdate,
                getRet, validation, chart, updaters, cfgBefore>>

\* lines 334-339: load_cached_data(prefer_redshift) on the page v.  A live
\* entry is served and load_data is not called; otherwise load_data runs
\* and what it returns is stored under the flag and served
load_cached_data(v, prefer_redshift) ==
    \E got \in {cache_get(v.cache, prefer_redshift, v.now)} :
        LET served(val, key) ==
                [val |-> val, key |-> key, flag |-> prefer_redshift, hit |-> got.hit,
                 at |-> v.now, afterRefresh |-> prefer_redshift \in v.pending]
        IN  IF got.hit
            THEN /\ viewer' = [v EXCEPT !.cache = expire(v.cache, v.now),
                                        !.served = served(got.val, got.key),
                                        !.pending = @ \ {prefer_redshift}]
                 /\ df' = got.val
                 /\ UNCHANGED <<env, loaded>>
            ELSE \E r \in RemoteOutcomes, g \in BOOLEAN :
                 \E e \in {[globRaises |-> g, prefer_redshift |-> prefer_redshift,
                            remote |-> r]} :
                 \E R \in {RedshiftCall(e)}, L \in {LocalCall(e)} :
                 \E res \in {load_data(prefer_redshift, R, L)} :
                 LET called(src) ==
                         \E i \in 1..Len(res.attempted) : res.attempted[i] = src
                 IN  /\ env' = e
                     /\ loaded' = [exc |-> res.exc, val |-> res.val,
                                   combined |-> IF called("local") THEN L.combined
                                                ELSE None,
                                   connOpen |-> called("redshift") /\ R.connOpen,
                                   attempted |-> res.attempted]
                     /\ viewer' =
                            [v EXCEPT
                               !.cache = cache_set(expire(v.cache, v.now), prefer_redshift,
                                                   res.val, v.now),
                               !.lastCall = cache_set(@, prefer_redshift, res.val, v.now),
                               !.served = served(res.val, prefer_redshift),
                               !.pending = @ \ {prefer_redshift}]
                     /\ df' = res.val

\* a run of the page with the radio button at either source
LoadCachedData ==
    /\ \E prefer_redshift \in BOOLEAN : load_cached_data(viewer, prefer_redshift)
    /\ call' = "load_cached_data"
    /\ ViewerFrame

\* lines 329-331: the Refresh button clears the cache and reruns the page,
\* which loads again for the source the radio button stands at
RefreshData ==
    /\ \E prefer_redshift \in BOOLEAN :
           load_cached_data([viewer EXCEPT !.cache = EmptyCache, !.pending = BOOLEAN],
                            prefer_redshift)
    /\ call' = "load_cached_data"
    /\ ViewerFrame

\* time passes between two runs of the page
Tick ==
    /\ \E t \in Instants : t > viewer.now /\ viewer' = [viewer EXCEPT !.now = t]
    /\ UNCHANGED <<env, loaded, df, call>>
    /\ ViewerFrame

ViewerNext == LoadCachedData \/ RefreshData \/ Tick

ViewerSpec == ViewerInit /\ [][ViewerNext]_vars

(***************************************************************************)
(* Claims about the resolver (Spec).                                       *)
(***************************************************************************)
Attempted(src) == \E i \in 1..Len(loaded.attempted) : loaded.attempted[i] = src

\* the last load's source calls raised inside their try blocks
RemoteError ==
    load_from_redshift_try(cfgFile, env.remote # "connect_fails", env.remote = "ok",
                           redshiftTable).exc
LocalError == load_local_data_try(dataDir, altDir, localCols, env.globRaises).exc

NonEmpty(d) == ~d.none /\ Len(d.rows) > 0

\* C1: load_data never raises to its caller, for either value of the flag
\* and whatever fails inside the two sources; a source that fails counts as
\* a source that produced nothing: the other source is tried when the
\* failing one was the primary, and the result is None when the failing
\* one was the secondary.
C1_LoadDataNeverRaises ==
    call = "load_data" =>
        /\ ~loaded.exc
        /\ (env.prefer_redshift /\ RemoteError) => loaded.attempted = <<"redshift", "local">>
        /\ (~env.prefer_redshift /\ LocalError) => loaded.attempted = <<"local", "redshift">>
        /\ (loaded.attempted = <<"redshift", "local">> /\ LocalError) => loaded.val = None
        /\ (loaded.attempted = <<"local", "redshift">> /\ RemoteError) => loaded.val = None

\* C1's case: no settings file and an unreadable directory, and the caller
\* still gets None after both sources were tried
C1_Witness ==
    /\ call = "load_data"
    /\ cfgFile = MissingFile
    /\ env.globRaises
    /\ Len(loaded.attempted) = 2
    /\ ~loaded.exc
    /\ loaded.val = None

\* C2: a non-empty primary table is returned with its row count unchanged
\* and the secondary source is not called; an empty or absent primary result
\* makes the result exactly what the secondary source's load returns, so
\* the result is empty or absent only if both sources produced nothing.
C2_PrimaryThenSecondary ==
    call = "load_data" =>
        LET redshift == RedshiftCall(env)
            local == LocalCall(env)
            primary == IF env.prefer_redshift THEN redshift ELSE local
            secondary == IF env.prefer_redshift THEN local ELSE redshift
            first == IF env.prefer_redshift THEN "redshift" ELSE "local"
            second == IF env.prefer_redshift THEN "local" ELSE "redshift"
        IN  /\ NonEmpty(primary.val) =>
                /\ loaded.val = primary.val
                /\ loaded.attempted = <<first>>
            /\ (env.prefer_redshift /\ ~RemoteError /\ redshiftTable # <<>>) =>
                /\ Len(loaded.val.rows) = Len(redshiftTable)
                /\ ~Attempted("local")
            /\ ~NonEmpty(primary.val) =>
                /\ loaded.val = secondary.val
                /\ loaded.attempted = <<first, second>>
            /\ ~NonEmpty(loaded.val) => ~NonEmpty(redshift.val) /\ ~NonEmpty(local.val)

\* C2's case: the warehouse is preferred, answers with an empty table, and
\* the local rows are what the caller gets
C2_Witness ==
    /\ call = "load_data"
    /\ env.prefer_redshift
    /\ ~RemoteError
    /\ redshiftTable = <<>>
    /\ loaded.attempted = <<"redshift", "local">>
    /\ NonEmpty(loaded.val)
    /\ loaded.val = LocalCall(env).val

\* C4: in every non-empty table load_data returns the id values are
\* pairwise distinct.
C4_IdsDistinct ==
    (call = "load_data" /\ NonEmpty(loaded.val)) =>
        \A i, j \in 1..Len(loaded.val.rows) :
            i # j => loaded.val.rows[i].id # loaded.val.rows[j].id

\* C25: every warehouse connection load_from_redshift opened is closed when
\* it returns, whether the query succeeded or failed after the connection
\* was made: no load_data call leaves a connection open.
C25_ConnectionsClosed ==
    call = "load_data" => ~loaded.connOpen

(***************************************************************************)
(* Claims about the local source (LocalSpec).                              *)
(***************************************************************************)
\* the directory the last local load read, and its files that parse
ScannedFiles == IF dataDir # <<>> THEN dataDir ELSE altDir
ParsedFiles == {i \in 1..Len(ScannedFiles) : ScannedFiles[i].ok}

\* every row of the parsed files, as <<file, row>>, and its place in the
\* concatenation: files in scan order, rows in file order
Places == UNION {{<<i, j>> : j \in 1..Len(ScannedFiles[i].rows)} : i \in ParsedFiles}
Before(p, q) == p[1] < q[1] \/ (p[1] = q[1] /\ p[2] < q[2])
IdAt(p) == ScannedFiles[p[1]].rows[p[2]].id
TsAt(p) == ScannedFiles[p[1]].rows[p[2]].created_utc
\* the places whose row is the last one with its id
LastPlaces == {p \in Places : ~\E q \in Places : IdAt(q) = IdAt(p) /\ Before(p, q)}

RECURSIVE SumLen(_, _)
SumLen(files, i) ==
    IF i > Len(files) THEN 0
    ELSE (IF files[i].ok THEN Len(files[i].rows) ELSE 0) + SumLen(files, i + 1)

\* C3: the deduplication of the concatenated parsed files keeps exactly the
\* last row of every id (last file in scan order, last row within a file),
\* in their order; when no id occurs twice the result has as many rows as
\* the files together; and a load that returns a table returns those rows.
C3_DedupKeepsLast ==
    (call = "load_local_data" /\ ~loaded.combined.none /\ "id" \in localCols) =>
        LET out == loaded.combined.rows
        IN  /\ {out[k].src : k \in 1..Len(out)} = LastPlaces
            /\ Len(out) = Cardinality({IdAt(p) : p \in Places})
            /\ \A k \in 1..Len(out) :
                   out[k].id = IdAt(out[k].src) /\ out[k].created_utc = TsAt(out[k].src)
            /\ \A k, l \in 1..Len(out) : k < l => Before(out[k].src, out[l].src)
            /\ (\A p, q \in Places : p # q => IdAt(p) # IdAt(q)) =>
                   Len(out) = SumLen(ScannedFiles, 1)
            /\ ~loaded.val.none =>
                   /\ Len(loaded.val.rows) = Len(out)
                   /\ {loaded.val.rows[k].src : k \in 1..Len(out)} = LastPlaces

\* C3's case: an id twice in the first file and once more in the second,
\* and the one row returned for it is the second file's
C3_Witness ==
    /\ call = "load_local_data"
    /\ "id" \in localCols
    /\ Len(dataDir) = 2
    /\ dataDir[1].ok /\ dataDir[2].ok
    /\ Len(dataDir[1].rows) = 2 /\ Len(dataDir[2].rows) = 1
    /\ dataDir[1].rows[1].id = "p1" /\ dataDir[1].rows[2].id = "p1"
    /\ dataDir[2].rows[1].id = "p1"
    /\ ~loaded.val.none
    /\ Len(loaded.val.rows) = 1
    /\ loaded.val.rows[1].src = <<2, 1>>

\* C5: a local load whose files hold a row with an unparsable created_utc
\* still returns a table that retains that row and all other rows.
C5_BadTimestampKeepsRows ==
    (/\ call = "load_local_data"
     /\ ~env.globRaises
     /\ ~loaded.combined.none
     /\ \E k \in 1..Len(loaded.combined.rows) :
            ~Parseable(loaded.combined.rows[k].created_utc)) =>
        /\ ~loaded.val.none
        /\ Len(loaded.val.rows) = Len(loaded.combined.rows)

\* C6: a file that does not parse is skipped alone: the load returns None
\* only when no file parses or none is found, and otherwise what it returns
\* is built from exactly the files that parsed: their rows, less the rows
\* the deduplication drops.
C6_ParseFailureSkipsOneFile ==
    (call = "load_local_data" /\ ~env.globRaises) =>
        /\ loaded.val.none <=> ParsedFiles = {}
        /\ ~loaded.val.none =>
               {loaded.val.rows[k].src : k \in 1..Len(loaded.val.rows)}
                   = IF "id" \in localCols THEN LastPlaces ELSE Places

(***************************************************************************)
(* Claims about the summary (SummarySpec).                                 *)
(***************************************************************************)
\* C7: for all tables, the empty table included, total_posts is the number
\* of rows of the table.
C7_TotalPostsIsLen ==
    (call = "get_data_summary" /\ ~df.none) =>
        /\ "total_posts" \in DOMAIN summary
        /\ summary["total_posts"] = Len(df.rows)

\* C8: get_data_summary returns a record of one fixed shape for every
\* input; a field whose source column is missing holds its default.
C8_FixedShape ==
    call = "get_data_summary" =>
        /\ DOMAIN summary = SummaryFields
        /\ "score" \notin df.cols => summary["total_score"] = 0
        /\ "num_comments" \notin df.cols => summary["total_comments"] = 0
        /\ "author" \notin df.cols => summary["unique_authors"] = 0
        /\ "over_18" \notin df.cols => summary["nsfw_count"] = 0
        /\ "edited" \notin df.cols => summary["edited_count"] = 0

(***************************************************************************)
(* Claims about the settings store (ConfigSpec).                           *)
(***************************************************************************)
\* C9: get_reddit_extraction_config returns the defaults (dataengineering,
\* day, no limit) whenever the file has no extraction section, whatever
\* else it holds.
C9_DefaultsWhenSectionAbsent ==
    (/\ call = "get_reddit_extraction_config"
     /\ cfgFile.state = "ok"
     /\ "reddit_extraction" \notin DOMAIN cfgFile.sections) =>
        getRet = Returned(ExtractionDefaults)

\* C9's case: a file with the warehouse section and no extraction section
C9_Witness ==
    /\ call = "get_reddit_extraction_config"
    /\ cfgFile.state = "ok"
    /\ "aws_config" \in DOMAIN cfgFile.sections
    /\ "reddit_extraction" \notin DOMAIN cfgFile.sections
    /\ getRet = Returned(ExtractionDefaults)

\* C10: after update_reddit_extraction_config(s, t, l) returned True, the
\* next get_reddit_extraction_config returns exactly s, t and l.
C10_RoundTrip ==
    (call = "get_reddit_extraction_config" /\ lastUpdate.ret) =>
        getRet = Returned(lastUpdate.args)

(***************************************************************************)
(* Claims about saving the settings (SaveSpec).                            *)
(***************************************************************************)
ExtractionKeys == {"subreddit", "time_filter", "limit"}

Saved == call = "update_reddit_extraction_config"

\* C11: an update that returns False leaves the settings file as reads saw
\* it before the call: read_config returns after the call what it returned
\* before it.
C11_FailedWriteKeepsContent ==
    (Saved /\ ~lastUpdate.ret) => read_config(cfgFile) = read_config(cfgBefore)

\* C12: an update that returns True changes only subreddit, time_filter and
\* limit of the extraction section: the file has the sections it had (and
\* the extraction section), every section has the keys it had (and the
\* three keys), and every other key reads as it read before.
C12_UpdateChangesOnlyThreeKeys ==
    (Saved /\ lastUpdate.ret) =>
        LET before == read_config(cfgBefore).val
            after == read_config(cfgFile).val
            set(s) == IF s = "reddit_extraction" THEN ExtractionKeys ELSE {}
            had(s) == IF s \in DOMAIN before THEN DOMAIN before[s] ELSE {}
        IN  /\ cfgFile.state = "ok"
            /\ DOMAIN after = DOMAIN before \cup {"reddit_extraction"}
            /\ \A s \in DOMAIN after :
                  /\ DOMAIN after[s] = had(s) \cup set(s)
                  /\ \A k \in had(s) \ set(s) :
                        /\ after[s][k] = before[s][k]
                        /\ parser_get(after, s, k) = parser_get(before, s, k)

\* C12's case: an update succeeded on a file that held the warehouse and
\* the source-API sections and a fourth key in its extraction section, and
\* changed the subreddit
C12_Witness ==
    /\ Saved
    /\ lastUpdate.ret
    /\ cfgBefore.state = "ok"
    /\ {"aws_config", "reddit_config", "reddit_extraction"} \subseteq DOMAIN cfgBefore.sections
    /\ "extra" \in DOMAIN cfgBefore.sections["reddit_extraction"]
    /\ cfgBefore.sections["reddit_extraction"]["subreddit"] = <<"a">>
    /\ cfgFile.sections["reddit_extraction"]["subreddit"] = <<"b">>
    /\ parser_get(read_config(cfgFile).val, "aws_config", "redshift_password")
           = Returned(<<"%">>)

\* C21: after any number of saves from the configuration form, on a file
\* that was valid at the start, the extraction settings the file holds read
\* as a subreddit that is not empty, a time filter that is one of hour, day,
\* week, month, year and all, and a limit that is None or a positive number.
C21_SavedSettingsWellFormed ==
    LET settings == get_reddit_extraction_config(cfgFile)
    IN  /\ ~settings.exc
        /\ settings.val.subreddit # <<>>
        /\ \E i \in 1..Len(time_filter_options) :
               time_filter_options[i] = settings.val.time_filter
        /\ settings.val.limit # NoLimit => settings.val.limit[1] > 0

\* the three extraction keys as update_reddit_extraction_config writes them
WrittenKeys(args) ==
    [subreddit |-> args.subreddit, time_filter |-> args.time_filter,
     limit |-> IF args.limit = NoLimit THEN TextNone ELSE IntToText(args.limit[1])]

BothSaved == \A p \in Procs : updaters[p].pc = "done" /\ updaters[p].ret

\* C20: after two calls that ran at the same time and both returned True,
\* the three extraction keys are those of the call that wrote last, and
\* every other section and key reads as it read before the two calls.
C20_LastWriterWins ==
    BothSaved =>
        LET before == read_config(cfgBefore).val
            after == read_config(cfgFile).val
            set(s) == IF s = "reddit_extraction" THEN ExtractionKeys ELSE {}
            had(s) == IF s \in DOMAIN before THEN DOMAIN before[s] ELSE {}
        IN  /\ cfgFile.state = "ok"
            /\ "reddit_extraction" \in DOMAIN after
            /\ \A k \in ExtractionKeys :
                  after["reddit_extraction"][k] = WrittenKeys(lastUpdate.args)[k]
            /\ DOMAIN after = DOMAIN before \cup {"reddit_extraction"}
            /\ \A s \in DOMAIN after :
                  /\ DOMAIN after[s] = had(s) \cup set(s)
                  /\ \A k \in had(s) \ set(s) : after[s][k] = before[s][k]

\* C24: a get_reddit_extraction_config call made while an update is under
\* way returns the settings stored before the update or the settings the
\* update stores, and does not raise; it returns no third value, the
\* defaults included.
C24_GetSeesBeforeOrAfter ==
    (call = "get_reddit_extraction_config" /\ updaters[1].pc \in {"open", "write"}) =>
        getRet \in {get_reddit_extraction_config(cfgBefore),
                    Returned(updaters[1].args)}

(***************************************************************************)
(* Claims about the validation (ValidateSpec).                             *)
(***************************************************************************)
Range(seq) == {seq[i] : i \in 1..Len(seq)}
RankIn(seq, x) == CHOOSE i \in 1..Len(seq) : seq[i] = x

RequiredKeys(s) ==
    CASE s = "aws_config" -> required_aws_keys
      [] s = "reddit_config" -> required_reddit_keys
      [] s = "reddit_extraction" -> required_extraction_keys

\* what the file lacks: the required sections that are absent, and the
\* required keys absent from the sections that are present
MissingSections == Range(required_sections) \ DOMAIN cfgFile.sections
MissingKeys ==
    UNION {{<<s, k>> : k \in Range(RequiredKeys(s)) \ DOMAIN cfgFile.sections[s]} :
              s \in Range(required_sections) \cap DOMAIN cfgFile.sections}

Validated == call = "validate_config" /\ cfgFile.state = "ok"

\* C13: with the file present, validate_config returns one error for every
\* missing required section and every required key missing from a section
\* that is present, and no other error: the list is as long as the two
\* counts together, and is_valid is true exactly when the list is empty.
C13_OneErrorPerViolation ==
    Validated =>
        /\ ~validation.exc
        /\ LET errors == validation.val.errors
           IN  /\ Range(errors) = {MissingSection(s) : s \in MissingSections}
                                  \cup {MissingKey(v[1], v[2]) : v \in MissingKeys}
               /\ Len(errors) = Cardinality(MissingSections) + Cardinality(MissingKeys)
               /\ validation.val.is_valid <=> errors = <<>>

\* C13's case: a file that lacks redshift_password and the whole source-API
\* section and nothing else, and its two errors
C13_Witness ==
    /\ Validated
    /\ DOMAIN cfgFile.sections = {"aws_config", "reddit_extraction"}
    /\ DOMAIN cfgFile.sections["aws_config"] = AwsKeys \ {"redshift_password"}
    /\ DOMAIN cfgFile.sections["reddit_extraction"] = ExtractionKeys
    /\ ~validation.val.is_valid
    /\ validation.val.errors = <<MissingSection("reddit_config"),
                                 MissingKey("aws_config", "redshift_password")>>

\* C14: the errors are listed section by section in the order the sections
\* are enumerated, and key by key within a section: an error about a section
\* never follows an error about a later section.
C14_SectionBySection ==
    Validated =>
        LET errors == validation.val.errors
        IN  \A i, j \in 1..Len(errors) :
                i < j =>
                    /\ RankIn(required_sections, errors[i].section)
                           <= RankIn(required_sections, errors[j].section)
                    /\ (errors[i].section = errors[j].section) =>
                           RankIn(RequiredKeys(errors[i].section), errors[i].key)
                               < RankIn(RequiredKeys(errors[j].section), errors[j].key)

\* the connection parameters of the warehouse section: host, port, database,
\* user, password, role, and the bucket and account identifiers
WarehouseParameters ==
    {"redshift_hostname", "redshift_port", "redshift_database", "redshift_username",
     "redshift_password", "redshift_role", "bucket_name", "account_id"}

\* C15: a file whose warehouse section lacks any of its connection
\* parameters is reported invalid.
C15_AllWarehouseKeysRequired ==
    (/\ Validated
     /\ "aws_config" \in DOMAIN cfgFile.sections
     /\ ~(WarehouseParameters \subseteq DOMAIN cfgFile.sections["aws_config"])) =>
        ~validation.val.is_valid

\* C23: whenever validate_config reports the file valid, the three typed
\* getters called on the same file all return a mapping and none raises.
C23_ValidFileGettersReturn ==
    (Validated /\ validation.val.is_valid) =>
        /\ ~get_reddit_extraction_config(cfgFile).exc
        /\ ~get_aws_config(cfgFile).exc
        /\ ~get_reddit_api_config(cfgFile).exc

(***************************************************************************)
(* Claims about the charts (ChartSpec).                                    *)
(***************************************************************************)
\* the columns a chart call reads
RequiredCols ==
    CASE chart.fn = "create_time_series_chart" -> {"created_utc", "id", chart.column}
      [] chart.fn = "create_top_posts_chart" -> {"title", chart.column}
      [] chart.fn = "create_author_chart" -> {"author"}
      [] chart.fn = "create_engagement_scatter" ->
            {"num_comments", "score", "title", "author"}
      [] chart.fn = "create_heatmap" -> {"created_utc"}
      [] OTHER -> {chart.column}

HasRows == ~df.none /\ ~IsEmpty(df)

\* the rows of df whose created_utc is a timestamp
Dated == {i \in 1..Len(df.rows) : df.rows[i].created_utc \in Timestamps}

\* C16: create_top_posts_chart on a table that has title and metric selects
\* min(n, len) rows; every selected row's metric is at least every other
\* row's, and of rows of equal metric the earlier one is selected first; the
\* selected rows keep their metric and their title, and the shortened title
\* stands beside them.
C16_TopN ==
    (call = "create_top_posts_chart" /\ (HasRows => RequiredCols \subseteq df.cols)) =>
        LET rows == df.rows
            top == chart.frame
            metric == chart.column
            selected == {top[k].index : k \in 1..Len(top)}
        IN  /\ ~chart.exc
            /\ Len(top) = IF chart.n < Len(rows) THEN chart.n ELSE Len(rows)
            /\ Cardinality(selected) = Len(top)
            /\ selected \subseteq 1..Len(rows)
            /\ \A i \in selected, j \in (1..Len(rows)) \ selected :
                  /\ rows[i][metric] >= rows[j][metric]
                  /\ rows[i][metric] = rows[j][metric] => i < j
            /\ \A k \in 1..Len(top) :
                  /\ top[k].metric = rows[top[k].index][metric]
                  /\ top[k].title = rows[top[k].index].title
                  /\ Len(top[k].title) <= TitleLimit => top[k].short_title = top[k].title
                  /\ Len(top[k].title) > TitleLimit =>
                        /\ Len(top[k].short_title) = TitleLimit + 3
                        /\ SubSeq(top[k].short_title, 1, TitleLimit)
                               = SubSeq(top[k].title, 1, TitleLimit)
            /\ HasRows => chart.val.data[1].x = [k \in 1..Len(top) |-> top[k].metric]

\* C16's case: two rows of equal score, the first with a title of 51
\* characters, and n = 1 selects the first and shortens its title
C16_Witness ==
    /\ call = "create_top_posts_chart"
    /\ chart.n = 1
    /\ chart.column = "score"
    /\ Len(df.rows) = 2
    /\ df.rows[1].score = df.rows[2].score
    /\ df.rows[1].title = LongTitle
    /\ df.rows[2].title = ShortTitle
    /\ Len(chart.frame) = 1
    /\ chart.frame[1].index = 1
    /\ chart.frame[1].title = LongTitle
    /\ Len(chart.frame[1].short_title) = TitleLimit + 3

\* C17: create_time_series_chart on a table with created_utc, id and the
\* metric returns one bucket for every date of the rows whose timestamp
\* parses, in ascending order of date, and the buckets' sums add up to the
\* sum of the metric over those rows.
C17_TimeSeriesBuckets ==
    (call = "create_time_series_chart" /\ HasRows /\ RequiredCols \subseteq df.cols) =>
        /\ ~chart.exc
        /\ LET daily_data == chart.frame
               dated == SelectSeq(df.rows, LAMBDA r : r.created_utc \in Timestamps)
           IN  /\ {daily_data[k].date : k \in 1..Len(daily_data)}
                      = {dt_date(df.rows[i].created_utc) : i \in Dated}
               /\ \A k, l \in 1..Len(daily_data) :
                      k < l => daily_data[k].date < daily_data[l].date
               /\ col_sum(daily_data, "sum") = col_sum(dated, chart.column)

\* C18: create_heatmap on a table with rows and created_utc returns the
\* matrix of the seven days Monday to Sunday by the hours 0 to 23, and its
\* cells add up to the number of rows whose timestamp parses.
C18_HeatmapSevenByTwentyFour ==
    (call = "create_heatmap" /\ HasRows /\ RequiredCols \subseteq df.cols) =>
        /\ ~chart.exc
        /\ LET trace == chart.val.data[1]
               row_sums == [i \in 1..Len(trace.z) |->
                              [sum |-> col_sum([j \in 1..Len(trace.z[i]) |->
                                                  [count |-> trace.z[i][j]]], "count")]]
           IN  /\ trace.y = days_order
               /\ trace.x = [h \in 1..24 |-> h - 1]
               /\ \A i \in 1..Len(trace.z) : Len(trace.z[i]) = 24
               /\ col_sum(row_sums, "sum") = Cardinality(Dated)

\* C19: every chart function returns the empty result, and does not raise,
\* on None, on a table without rows, and on a table that lacks a column the
\* function reads.
C19_ChartsDegradeToEmpty ==
    (chart.fn # "none" /\ (~HasRows \/ ~(RequiredCols \subseteq df.cols))) =>
        /\ ~chart.exc
        /\ chart.val.data = <<>>

(***************************************************************************)
(* Claims about the Data Viewer's cache (ViewerSpec).                      *)
(***************************************************************************)
\* C22: the table load_cached_data serves for a flag value is the one the
\* last load_data call with that flag value returned, and that call was
\* made at most 300 seconds before; a table served from the cache was
\* stored under the flag value it is served for; and the first load for a
\* flag value after a Refresh calls load_data and serves nothing cached.
C22_CacheKeyedAndFresh ==
    call = "load_cached_data" =>
        LET served == viewer.served
        IN  /\ served.flag \in DOMAIN viewer.lastCall
            /\ viewer.lastCall[served.flag].val = served.val
            /\ served.at - viewer.lastCall[served.flag].at <= CacheTtl
            /\ served.key = served.flag
            /\ served.afterRefresh => ~served.hit

\* C22's case: the warehouse table is served from the cache one second
\* before its ttl runs out, while the cache also holds another table for the
\* other flag value
C22_Witness ==
    /\ call = "load_cached_data"
    /\ viewer.served.hit
    /\ viewer.served.flag
    /\ viewer.served.at - viewer.lastCall[TRUE].at = CacheTtl - 1
    /\ FALSE \in DOMAIN viewer.cache
    /\ viewer.cache[FALSE].val # viewer.served.val
    /\ NonEmpty(viewer.served.val)

====
